---- MODULE Spec2Model ----
(***************************************************************************)
(* MO2Command (src/src/lib.rs): a builder that accumulates a launcher      *)
(* path, a target program path and an ordered list of argument tokens, and *)
(* renders them either as one command string (build) or as a process       *)
(* descriptor (execute).                                                   *)
(*                                                                         *)
(* Text is modelled as a sequence of one-character strings.  Paths and     *)
(* tokens are Unicode text, as the tests and the documentation examples    *)
(* pass them; a unit outside Unicode (an ill-formed OS string unit) is     *)
(* what Path::display replaces by U+FFFD.                                  *)
(***************************************************************************)
EXTENDS Naturals, Sequences, FiniteSets

VARIABLES
    mo2_path,      \* MO2Command.mo2_path
    program_path,  \* MO2Command.program_path
    arguments,     \* MO2Command.arguments
    created,       \* the two paths handed to MO2Command::new
    inserted,      \* every token handed to arg/args so far, in call order
    op,            \* the last method called on the builder
    batch,         \* the tokens handed to the last arg/args call
    buildOut,      \* <<s>>: s returned by build() on this builder value, else <<>>
    execOut        \* <<c>>: c returned by execute() on this builder value, else <<>>

vars == <<mo2_path, program_path, arguments, created, inserted, op, batch,
          buildOut, execOut>>

----------------------------------------------------------------------------
(* Bounds *)

MaxPathLen == 1
MaxTokLen == 2
MaxArgs == 2
MaxBatch == 2

----------------------------------------------------------------------------
(* Characters *)

Q == "\""
BS == "\\"
SP == " "
REPLACEMENT == "U+FFFD"

Unicode == {Q, BS, SP, "r", "u", "n", "-", "a", REPLACEMENT}

PathChars == {Q}
TokChars == {Q, BS}

Paths == UNION {[1..n -> PathChars] : n \in 0..MaxPathLen}
Tokens == UNION {[1..n -> TokChars] : n \in 0..MaxTokLen}

----------------------------------------------------------------------------
(* The builder's methods as functions of the builder value *)

Self == [mo2_path |-> mo2_path, program_path |-> program_path,
         arguments |-> arguments]

newSwapped(m, p) ==
    [mo2_path |-> p, program_path |-> m, arguments |-> <<>>]

new(m, p) ==
    [mo2_path |-> m, program_path |-> p, arguments |-> <<>>]

arg(self, t) ==
    [self EXCEPT !.arguments = Append(@, t)]

argsReplace(self, ts) ==
    [self EXCEPT !.arguments = ts]

args(self, ts) ==
    [self EXCEPT !.arguments = @ \o ts]

\* Path::display: lossy for units that are not Unicode
display(path) ==
    [i \in 1..Len(path) |-> IF path[i] \in Unicode THEN path[i] ELSE REPLACEMENT]

quote_pathChecked(path) ==
    IF path = <<>> THEN <<"PANIC">> ELSE <<Q>> \o display(path) \o <<Q>>

quote_path(path) ==
    <<Q>> \o display(path) \o <<Q>>

\* [String]::join(sep): the first element, then sep and element for the rest
RECURSIVE joinRest(_, _)
joinRest(v, sep) ==
    IF v = <<>> THEN <<>> ELSE sep \o Head(v) \o joinRest(Tail(v), sep)

join(v, sep) ==
    IF v = <<>> THEN <<>> ELSE Head(v) \o joinRest(Tail(v), sep)

\* str::replace(from, to) for a one-character pattern
RECURSIVE replace(_, _, _)
replace(s, from, to) ==
    IF s = <<>> THEN <<>>
    ELSE (IF Head(s) = from THEN to ELSE <<Head(s)>>) \o replace(Tail(s), from, to)

\* str::replacen(from, to, 1)
RECURSIVE replaceFirst(_, _, _)
replaceFirst(s, from, to) ==
    IF s = <<>> THEN <<>>
    ELSE IF Head(s) = from THEN to \o Tail(s)
    ELSE <<Head(s)>> \o replaceFirst(Tail(s), from, to)

escapeFirstQuoteOnly(a) ==
    replaceFirst(a, Q, <<BS, Q>>)

escapeBackslashesToo(a) ==
    replace(replace(a, BS, <<BS, BS>>), Q, <<BS, Q>>)

escape_for_mo2_args(a) ==
    replace(a, Q, <<BS, Q>>)

RUN == <<"r", "u", "n">>
DASH_A == <<"-", "a">>

buildAlwaysClause(self) ==
    quote_path(self.mo2_path) \o <<SP>> \o RUN \o <<SP>>
        \o quote_path(self.program_path) \o <<SP>> \o DASH_A \o <<SP, Q>>
        \o escape_for_mo2_args(join(self.arguments, <<SP>>)) \o <<Q>>

buildTestsJoined(self) ==
    IF join(self.arguments, <<SP>>) = <<>>
    THEN quote_path(self.mo2_path) \o <<SP>> \o RUN \o <<SP>>
             \o quote_path(self.program_path)
    ELSE buildAlwaysClause(self)

build(self) ==
    LET mo2 == quote_path(self.mo2_path)
        program == quote_path(self.program_path)
    IN  IF self.arguments = <<>>
        THEN mo2 \o <<SP>> \o RUN \o <<SP>> \o program
        ELSE LET args_string == join(self.arguments, <<SP>>)
                 escaped_args == escape_for_mo2_args(args_string)
             IN  mo2 \o <<SP>> \o RUN \o <<SP>> \o program
                     \o <<SP>> \o DASH_A \o <<SP, Q>> \o escaped_args \o <<Q>>

executeEscaped(self) ==
    [program |-> self.mo2_path,
     args |-> <<RUN, self.program_path>> \o
              (IF self.arguments # <<>>
               THEN <<DASH_A, escape_for_mo2_args(join(self.arguments, <<SP>>))>>
               ELSE <<>>)]

executeArgv0(self) ==
    [program |-> self.mo2_path,
     args |-> <<self.mo2_path, RUN, self.program_path>> \o
              (IF self.arguments # <<>>
               THEN <<DASH_A, join(self.arguments, <<SP>>)>>
               ELSE <<>>)]

execute(self) ==
    [program |-> self.mo2_path,
     args |-> <<RUN, self.program_path>> \o
              (IF self.arguments # <<>>
               THEN <<DASH_A, join(self.arguments, <<SP>>)>>
               ELSE <<>>)]

----------------------------------------------------------------------------
(* The state machine *)

Init ==
    \E m \in Paths, p \in Paths :
        /\ mo2_path = new(m, p).mo2_path
        /\ program_path = new(m, p).program_path
        /\ arguments = new(m, p).arguments
        /\ created = <<m, p>>
        /\ inserted = <<>>
        /\ op = "new"
        /\ batch = <<>>
        /\ buildOut = <<>>
        /\ execOut = <<>>

\* arg and args take the builder by value and return the updated one, so
\* what build/execute returned before belongs to the previous value
Arg ==
    \E t \in Tokens :
        /\ Len(arguments) < MaxArgs
        /\ mo2_path' = arg(Self, t).mo2_path
        /\ program_path' = arg(Self, t).program_path
        /\ arguments' = arg(Self, t).arguments
        /\ inserted' = Append(inserted, t)
        /\ op' = "arg"
        /\ batch' = <<t>>
        /\ buildOut' = <<>>
        /\ execOut' = <<>>
        /\ UNCHANGED created

Args ==
    \E n \in 0..MaxBatch :
      /\ Len(arguments) + n <= MaxArgs
      /\ \E ts \in [1..n -> Tokens] :
        /\ mo2_path' = args(Self, ts).mo2_path
        /\ program_path' = args(Self, ts).program_path
        /\ arguments' = args(Self, ts).arguments
        /\ inserted' = inserted \o ts
        /\ op' = "args"
        /\ batch' = ts
        /\ buildOut' = <<>>
        /\ execOut' = <<>>
        /\ UNCHANGED created

BuildDrain ==
    /\ buildOut' = <<build(Self)>>
    /\ arguments' = <<>>
    /\ op' = "build"
    /\ batch' = <<>>
    /\ UNCHANGED <<mo2_path, program_path, created, inserted, execOut>>

Build ==
    /\ buildOut' = <<build(Self)>>
    /\ op' = "build"
    /\ batch' = <<>>
    /\ UNCHANGED <<mo2_path, program_path, arguments, created, inserted, execOut>>

Execute ==
    /\ execOut' = <<execute(Self)>>
    /\ op' = "execute"
    /\ batch' = <<>>
    /\ UNCHANGED <<mo2_path, program_path, arguments, created, inserted, buildOut>>

Next == Arg \/ Args \/ Build \/ Execute

Spec == Init /\ [][Next]_vars

----------------------------------------------------------------------------
(* Reference text the properties compare the renderers against *)

\* a1 a2 ... an with one space between neighbours, built from the left
RECURSIVE ExpectedJoined(_)
ExpectedJoined(toks) ==
    IF Len(toks) = 0 THEN <<>>
    ELSE IF Len(toks) = 1 THEN toks[1]
    ELSE ExpectedJoined(SubSeq(toks, 1, Len(toks) - 1)) \o <<SP>> \o toks[Len(toks)]

\* every double quote preceded by one backslash, built from the right
RECURSIVE ExpectedEscaped(_)
ExpectedEscaped(s) ==
    IF Len(s) = 0 THEN <<>>
    ELSE ExpectedEscaped(SubSeq(s, 1, Len(s) - 1)) \o
         (IF s[Len(s)] = Q THEN <<BS, Q>> ELSE <<s[Len(s)]>>)

\* "L" run "T"
ExpectedBase(l, t) ==
    <<Q>> \o l \o <<Q, SP, "r", "u", "n", SP, Q>> \o t \o <<Q>>

BaseLen == Len(mo2_path) + Len(program_path) + 9

\* the text between the quote that opens the -a value and the closing quote
InnerText(s) == SubSeq(s, BaseLen + 6, Len(s) - 1)

\* the text between the second pair of quotes that build writes
TargetField(s) == SubSeq(s, Len(mo2_path) + 9, Len(mo2_path) + 8 + Len(program_path))

HasClause(s) ==
    /\ Len(s) >= BaseLen + 6
    /\ SubSeq(s, BaseLen + 1, BaseLen + 5) = <<SP, "-", "a", SP, Q>>
    /\ s[Len(s)] = Q

HasDashA(c) == Len(c.args) >= 3 /\ c.args[3] = DASH_A

CountChar(s, ch) == Cardinality({i \in 1..Len(s) : s[i] = ch})

CountEscapedQuotes(s) ==
    Cardinality({i \in 1..(Len(s) - 1) : s[i] = BS /\ s[i + 1] = Q})

RECURSIVE TotalCount(_, _)
TotalCount(toks, ch) ==
    IF toks = <<>> THEN 0 ELSE CountChar(Head(toks), ch) + TotalCount(Tail(toks), ch)

RECURSIVE TotalLen(_)
TotalLen(toks) ==
    IF toks = <<>> THEN 0 ELSE Len(Head(toks)) + TotalLen(Tail(toks))

\* every backslash + double quote, scanning from the left, becomes a double quote
RECURSIVE Unescape(_)
Unescape(s) ==
    IF Len(s) < 2 THEN s
    ELSE IF s[1] = BS /\ s[2] = Q THEN <<Q>> \o Unescape(SubSeq(s, 3, Len(s)))
    ELSE <<s[1]>> \o Unescape(Tail(s))

RECURSIVE FoldArg(_, _)
FoldArg(self, ts) ==
    IF ts = <<>> THEN self ELSE FoldArg(arg(self, Head(ts)), Tail(ts))

IsText(s) == DOMAIN s = 1..Len(s) /\ \A i \in 1..Len(s) : s[i] \in Unicode

HasQuote(t) == \E i \in 1..Len(t) : t[i] = Q

HasBackslashQuote(t) == \E i \in 1..(Len(t) - 1) : t[i] = BS /\ t[i + 1] = Q

Built == buildOut # <<>>
Executed == execOut # <<>>

----------------------------------------------------------------------------
(* Properties *)

\* C1: with at least one token added (by any mix of arg and args), build
\* returns exactly "L" run "T" -a "E", E being the tokens in insertion order
\* joined by one space and then every double quote preceded by a backslash.
C1_BuildWithArgs ==
    (Built /\ Len(inserted) >= 1) =>
        buildOut[1] = ExpectedBase(mo2_path, program_path)
                          \o <<SP, "-", "a", SP, Q>>
                          \o ExpectedEscaped(ExpectedJoined(inserted)) \o <<Q>>

C1_Witness ==
    /\ Built
    /\ Len(inserted) >= 2
    /\ HasQuote(inserted[2])
    /\ \E i \in 1..Len(inserted[1]) : inserted[1][i] = BS

\* C2: with non-empty paths and no token added, build returns exactly
\* "L" run "T" and execute's argument list is exactly <<run, T>>.
C2_NoArgs ==
    (inserted = <<>> /\ mo2_path # <<>> /\ program_path # <<>>) =>
        /\ Built => buildOut[1] = ExpectedBase(mo2_path, program_path)
        /\ Executed => execOut[1].args = <<RUN, program_path>>

C2_Witness ==
    /\ Built /\ Executed
    /\ inserted = <<>>
    /\ mo2_path # <<>> /\ program_path # <<>>

C4_ArgsIsRepeatedArg ==
    /\ [](arguments = inserted)
    /\ [][op' = "args" =>
            /\ Self' = FoldArg(Self, batch')
            /\ build(Self') = build(FoldArg(Self, batch'))
            /\ execute(Self') = execute(FoldArg(Self, batch'))]_vars

C4_Witness ==
    /\ op = "args"
    /\ batch # <<>>
    /\ Len(batch) < Len(arguments)

\* C5: build and execute leave the paths and the argument list unchanged,
\* and a renderer called again on the same builder returns what it returned
\* before.
C5_RenderIsPure ==
    [][op' \in {"build", "execute"} =>
          /\ UNCHANGED <<mo2_path, program_path, arguments>>
          /\ (op' = "build" /\ Built) => buildOut' = buildOut
          /\ (op' = "execute" /\ Executed) => execOut' = execOut]_vars

C5_Witness ==
    /\ Built /\ Executed
    /\ Len(arguments) >= 1

\* C6: build and execute can always be called and always return a result:
\* a string, and a command whose program and arguments are strings.
C6_RenderNeverFails ==
    /\ ENABLED Build
    /\ ENABLED Execute
    /\ Built => IsText(buildOut[1])
    /\ Executed =>
          /\ IsText(execOut[1].program)
          /\ \A i \in 1..Len(execOut[1].args) : IsText(execOut[1].args[i])

C6_Witness ==
    /\ Built /\ Executed
    /\ mo2_path = <<>> /\ program_path = <<>>
    /\ \E i \in 1..Len(arguments) : arguments[i] = <<>>
    /\ \E i \in 1..Len(arguments) : HasBackslashQuote(arguments[i])

\* C7 as stated: both paths are never empty and equal the values handed to
\* new.
C7_PathsNeverEmpty ==
    /\ mo2_path # <<>>
    /\ program_path # <<>>
    /\ <<mo2_path, program_path>> = created

\* C7 amended: both paths always equal the values handed to new, whatever
\* was added or rendered since; they are empty when new was handed empty ones.
C7_PathsFixedAtCreation ==
    <<mo2_path, program_path>> = created

C7_Witness ==
    /\ op = "execute"
    /\ Built
    /\ Len(arguments) >= 2
    /\ mo2_path # program_path

\* C8: in the -a text of build, the backslash + double quote pairs are as
\* many as the double quotes in the tokens, neighbours are one space apart
\* and every other character is kept: per character the count is that of
\* the tokens (plus one backslash per double quote, plus the separating
\* spaces), and the length is that of the plain join plus the double quotes.
C8_OnlyQuotesEscaped ==
    (Built /\ Len(inserted) >= 1) =>
        LET inner == InnerText(buildOut[1])
            quotes == TotalCount(inserted, Q)
        IN  /\ CountEscapedQuotes(inner) = quotes
            /\ CountChar(inner, Q) = quotes
            /\ CountChar(inner, BS) = TotalCount(inserted, BS) + quotes
            /\ CountChar(inner, SP) = TotalCount(inserted, SP) + Len(inserted) - 1
            /\ \A ch \in Unicode \ {Q, BS, SP} :
                   CountChar(inner, ch) = TotalCount(inserted, ch)
            /\ Len(inner) = TotalLen(inserted) + (Len(inserted) - 1) + quotes

C8_Witness ==
    /\ Built
    /\ Len(inserted) >= 2
    /\ TotalCount(inserted, Q) >= 2
    /\ TotalCount(inserted, BS) >= 1

C10_ClauseIffTokens ==
    /\ Built => (HasClause(buildOut[1]) <=> Len(arguments) >= 1)
    /\ Executed => (HasDashA(execOut[1]) <=> Len(arguments) >= 1)
    /\ (Built /\ Executed) => (HasClause(buildOut[1]) <=> HasDashA(execOut[1]))
    /\ arguments = <<>> =>
          /\ ~HasClause(build(args(Self, <<>>)))
          /\ ~HasDashA(execute(args(Self, <<>>)))

C10_Witness ==
    /\ Built /\ Executed
    /\ Len(arguments) >= 1
    /\ \A i \in 1..Len(arguments) : arguments[i] = <<>>

====
